---- MODULE Spec2Model ----
(***************************************************************************)
(* A model of contexter.Contexter / contexter.ExitStack: the prepared     *)
(* list, the scope stack, registration (append), activation (__enter__),  *)
(* deactivation (__exit__), the values view and the transfer (pop_all).    *)
(***************************************************************************)
EXTENDS Integers, Sequences, FiniteSets, TLC

\* ---------------------------------------------------------------- bounds
MaxHandles == 2       \* handles in all: given to the constructor or appended
MaxActivations == 2   \* calls of __enter__ over the manager's lifetime
MaxScopeLen == 3      \* entries of a scope the lookups are applied to

\* ------------------------------------------------------ handles and values
\* The attribute sets hasattr() can see on a handle.
CapSets ==
  { {"__enter__", "__exit__"}, {"close"}, {"__exit__", "close"}, {"__enter__"}, {} }

\* What a call of a handle's __enter__ may do.
EnterOutcomes == {"ok", "raise"}

\* What a call of a handle's __exit__ / close may do: return a falsy value,
\* return a truthy value, or raise.
ExitOutcomes == {"falsy", "truthy", "raise"}

HandleIds == 1..MaxHandles

\* Every entry (context, value) tuple ever created has its own serial.
EntryIds == 1..(MaxActivations * MaxHandles)

Handle(i, caps) == [id |-> i, caps |-> caps]

\* Python values the operations return or store.
NoneVal == [t |-> "None", id |-> 0]
SelfVal == [t |-> "self", id |-> 0]
EnterVal(h) == [t |-> "value", id |-> h.id]     \* what h.__enter__() returned
HandleVal(h) == [t |-> "handle", id |-> h.id]   \* the handle object itself

Truthy(v) == v.t # "None"

\* Exceptions (the exc triple is one value here).
NoExc == [kind |-> "None", src |-> 0]            \* (None, None, None)
BodyErr == [kind |-> "Body", src |-> 0]          \* raised inside the with block
CleanupErr(i) == [kind |-> "Cleanup", src |-> i] \* raised by handle i's release
EnterErr(i) == [kind |-> "Enter", src |-> i]     \* raised by handle i's __enter__
TypeErr == [kind |-> "TypeError", src |-> 0]     \* _not_a_context
IndexErr == [kind |-> "IndexError", src |-> 0]   \* list index / pop on empty list

Entry(h, v, e) == [context |-> h, value |-> v, eid |-> e]

VARIABLES
  prepared,        \* self._prepared
  context_stack,   \* self._context_stack
  nreg,            \* number of append calls made by the caller so far
  nact,            \* number of __enter__ calls so far
  nextEid,         \* serial of the next entry tuple
  enterCount,      \* per handle: calls of its __enter__
  releaseCount,    \* per entry: calls of its handle's __exit__ / close
  detached,        \* serials of the entries pop_all moved away
  failed,          \* handles whose __enter__ raised in a call of append by the user
  last             \* the last call: the method, the stack it found (pre), its
                   \* arguments, the calls it made on handles and its outcome

vars == <<prepared, context_stack, nreg, nact, nextEid, enterCount,
          releaseCount, detached, failed, last>>

\* ------------------------------------------------------------- sequences
\* contexts iterated in registration order
ReversedForward(s) == s

RECURSIVE Reversed(_)
\* contexts[::-1]
Reversed(s) == IF s = <<>> THEN <<>> ELSE Reversed(Tail(s)) \o <<Head(s)>>

Top(stack) == stack[Len(stack)]
ButLast(stack) == SubSeq(stack, 1, Len(stack) - 1)

\* the whole stack dropped instead of its last scope
PoppedAll(stack) == <<>>

\* list.pop(): the stack without its last scope
Popped(stack) == ButLast(stack)

\* self._context_stack[-1].append(entry)
PushEntry(stack, entry) == [stack EXCEPT ![Len(stack)] = Append(@, entry)]

\* The index argument of value(): an integer or a slice start:stop whose ends
\* are None (<<>>) or an integer (<<n>>).
PointIndex(i) == [slice |-> FALSE, i |-> i, start |-> <<>>, stop |-> <<>>]
SliceIndex(start, stop) == [slice |-> TRUE, i |-> 0, start |-> start, stop |-> stop]

NoCall(op) ==
  [op |-> op, pre |-> <<>>, exc_in |-> NoExc, handle |-> Handle(0, {}), popped |-> <<>>,
   log |-> <<>>, entered |-> <<>>, new_stack |-> <<>>, raised |-> NoExc,
   ret |-> NoneVal, scope |-> -1, index |-> PointIndex(0), vals |-> <<>>]

\* ----------------------------------------------------------- Contexter.append
\* probing only __enter__: a handle without __exit__ is entered and stored
AppendOpEnterOnly(stack, h, out, eid) ==
  IF "__enter__" \in h.caps
  THEN IF out = "raise"
       THEN [stack |-> stack, raised |-> EnterErr(h.id), ret |-> NoneVal,
             entered |-> <<h.id>>, made |-> 0]
       ELSE IF stack = <<>>
       THEN [stack |-> stack, raised |-> IndexErr, ret |-> NoneVal,
             entered |-> <<h.id>>, made |-> 0]
       ELSE [stack |-> PushEntry(stack, Entry(h, EnterVal(h), eid)),
             raised |-> NoExc, ret |-> EnterVal(h),
             entered |-> <<h.id>>, made |-> 1]
  ELSE IF "close" \in h.caps
  THEN IF stack = <<>>
       THEN [stack |-> stack, raised |-> IndexErr, ret |-> NoneVal,
             entered |-> <<>>, made |-> 0]
       ELSE [stack |-> PushEntry(stack, Entry(h, HandleVal(h), eid)),
             raised |-> NoExc, ret |-> HandleVal(h),
             entered |-> <<>>, made |-> 1]
  ELSE [stack |-> stack, raised |-> TypeErr, ret |-> NoneVal,
        entered |-> <<>>, made |-> 0]

\* storing (context, context) for a context manager too
AppendOpStoresHandle(stack, h, out, eid) ==
  IF {"__enter__", "__exit__"} \subseteq h.caps
  THEN IF out = "raise"
       THEN [stack |-> stack, raised |-> EnterErr(h.id), ret |-> NoneVal,
             entered |-> <<h.id>>, made |-> 0]
       ELSE IF stack = <<>>
       THEN [stack |-> stack, raised |-> IndexErr, ret |-> NoneVal,
             entered |-> <<h.id>>, made |-> 0]
       ELSE [stack |-> PushEntry(stack, Entry(h, HandleVal(h), eid)),
             raised |-> NoExc, ret |-> EnterVal(h),
             entered |-> <<h.id>>, made |-> 1]
  ELSE IF "close" \in h.caps
  THEN IF stack = <<>>
       THEN [stack |-> stack, raised |-> IndexErr, ret |-> NoneVal,
             entered |-> <<>>, made |-> 0]
       ELSE [stack |-> PushEntry(stack, Entry(h, HandleVal(h), eid)),
             raised |-> NoExc, ret |-> HandleVal(h),
             entered |-> <<>>, made |-> 1]
  ELSE [stack |-> stack, raised |-> TypeErr, ret |-> NoneVal,
        entered |-> <<>>, made |-> 0]

\* the entry stored before __enter__ is called
AppendOpPushFirst(stack, h, out, eid) ==
  IF {"__enter__", "__exit__"} \subseteq h.caps
  THEN IF stack = <<>>
       THEN [stack |-> stack, raised |-> IndexErr, ret |-> NoneVal,
             entered |-> <<>>, made |-> 0]
       ELSE IF out = "raise"
       THEN [stack |-> PushEntry(stack, Entry(h, EnterVal(h), eid)),
             raised |-> EnterErr(h.id), ret |-> NoneVal,
             entered |-> <<h.id>>, made |-> 1]
       ELSE [stack |-> PushEntry(stack, Entry(h, EnterVal(h), eid)),
             raised |-> NoExc, ret |-> EnterVal(h),
             entered |-> <<h.id>>, made |-> 1]
  ELSE IF "close" \in h.caps
  THEN IF stack = <<>>
       THEN [stack |-> stack, raised |-> IndexErr, ret |-> NoneVal,
             entered |-> <<>>, made |-> 0]
       ELSE [stack |-> PushEntry(stack, Entry(h, HandleVal(h), eid)),
             raised |-> NoExc, ret |-> HandleVal(h),
             entered |-> <<>>, made |-> 1]
  ELSE [stack |-> stack, raised |-> TypeErr, ret |-> NoneVal,
        entered |-> <<>>, made |-> 0]

\* The result of self << h when h.__enter__ (if called) behaves as `out`:
\* the new stack, the exception raised, the value returned, the handles
\* whose __enter__ ran and the number of entries created.
AppendOp(stack, h, out, eid) ==
  IF {"__enter__", "__exit__"} \subseteq h.caps
  THEN IF out = "raise"
       THEN [stack |-> stack, raised |-> EnterErr(h.id), ret |-> NoneVal,
             entered |-> <<h.id>>, made |-> 0]
       ELSE IF stack = <<>>
       THEN [stack |-> stack, raised |-> IndexErr, ret |-> NoneVal,
             entered |-> <<h.id>>, made |-> 0]
       ELSE [stack |-> PushEntry(stack, Entry(h, EnterVal(h), eid)),
             raised |-> NoExc, ret |-> EnterVal(h),
             entered |-> <<h.id>>, made |-> 1]
  ELSE IF "close" \in h.caps
  THEN IF stack = <<>>
       THEN [stack |-> stack, raised |-> IndexErr, ret |-> NoneVal,
             entered |-> <<>>, made |-> 0]
       ELSE [stack |-> PushEntry(stack, Entry(h, HandleVal(h), eid)),
             raised |-> NoExc, ret |-> HandleVal(h),
             entered |-> <<>>, made |-> 1]
  ELSE [stack |-> stack, raised |-> TypeErr, ret |-> NoneVal,
        entered |-> <<>>, made |-> 0]

CountEnters(cnt, ids) ==
  [i \in HandleIds |-> cnt[i] + Cardinality({k \in 1..Len(ids) : ids[k] = i})]

\* ctx.append(h) / ctx << h, called by the user of the manager
append ==
  /\ Len(prepared) + nreg < MaxHandles
  /\ \E caps \in CapSets, out \in EnterOutcomes :
       LET h == Handle(Len(prepared) + nreg + 1, caps)
       IN \E r \in {AppendOp(context_stack, h, out, nextEid)} :
          /\ context_stack' = r.stack
          /\ nextEid' = nextEid + r.made
          /\ enterCount' = CountEnters(enterCount, r.entered)
          /\ failed' = IF r.raised = EnterErr(h.id) THEN failed \cup {h.id} ELSE failed
          /\ last' = [NoCall("append") EXCEPT !.pre = context_stack, !.handle = h, !.entered = r.entered,
                                              !.raised = r.raised, !.ret = r.ret]
  /\ nreg' = nreg + 1
  /\ UNCHANGED <<prepared, nact, releaseCount, detached>>

\* ------------------------------------------------- Contexter.values / __len__
\* Python list indexing: the 1-based position index i selects in a list of
\* length n (0 when i is out of range).
PyIndex(n, i) ==
  IF i < 0 THEN (IF n + i >= 0 THEN n + i + 1 ELSE 0)
  ELSE (IF i < n THEN i + 1 ELSE 0)

\* [value for context, value in self._context_stack[stack]]
Values(stack, idx) ==
  LET scope == stack[PyIndex(Len(stack), idx)]
  IN [k \in 1..Len(scope) |-> scope[k].value]

\* len(self._context_stack[-1])
LenOp(stack) == Len(stack[PyIndex(Len(stack), -1)])

\* A list or an integer as a result.
ListVal == [t |-> "list", id |-> 0]
IntVal(n) == [t |-> "int", id |-> n]

\* values(stack): IndexError when the stack has no such scope
ValuesOp(stack, idx) ==
  IF PyIndex(Len(stack), idx) = 0
  THEN [raised |-> IndexErr, ret |-> NoneVal, vals |-> <<>>]
  ELSE [raised |-> NoExc, ret |-> ListVal, vals |-> Values(stack, idx)]

\* __len__(): IndexError when the manager is inactive
LenCallOp(stack) ==
  IF PyIndex(Len(stack), -1) = 0
  THEN [raised |-> IndexErr, ret |-> NoneVal, vals |-> <<>>]
  ELSE [raised |-> NoExc, ret |-> IntVal(LenOp(stack)), vals |-> <<>>]

\* -------------------------------------------------------------- Contexter.value
\* an end of a slice inclusive of the element it names
SliceEndInclusive(n, x, dflt) ==
  IF x = <<>> THEN dflt
  ELSE IF x[1] < 0 THEN (IF n + x[1] < 0 THEN 0 ELSE n + x[1] + 1)
  ELSE (IF x[1] >= n THEN n ELSE x[1] + 1)

\* Python's slice ends for a list of length n: None is the default, a negative
\* end counts from the back, and both are clamped to 0..n.
SliceEnd(n, x, dflt) ==
  IF x = <<>> THEN dflt
  ELSE IF x[1] < 0 THEN (IF n + x[1] < 0 THEN 0 ELSE n + x[1])
  ELSE (IF x[1] > n THEN n ELSE x[1])

\* scope[start:stop]
PySlice(scope, start, stop) ==
  SubSeq(scope, SliceEnd(Len(scope), start, 0) + 1,
         SliceEnd(Len(scope), stop, Len(scope)))

\* [x[1] for x in entries]
Seconds(entries) == [k \in 1..Len(entries) |-> entries[k].value]

\* a point index past the end answered with the last value
ValueOpClamped(stack, index, idx) ==
  IF PyIndex(Len(stack), idx) = 0
  THEN [raised |-> IndexErr, ret |-> NoneVal, vals |-> <<>>]
  ELSE IF index.slice
  THEN [raised |-> NoExc, ret |-> ListVal,
        vals |-> Seconds(PySlice(stack[PyIndex(Len(stack), idx)],
                                 index.start, index.stop))]
  ELSE IF Len(stack[PyIndex(Len(stack), idx)]) = 0
          \/ (index.i < 0 /\ PyIndex(Len(stack[PyIndex(Len(stack), idx)]), index.i) = 0)
  THEN [raised |-> IndexErr, ret |-> NoneVal, vals |-> <<>>]
  ELSE IF PyIndex(Len(stack[PyIndex(Len(stack), idx)]), index.i) = 0
  THEN [raised |-> NoExc,
        ret |-> stack[PyIndex(Len(stack), idx)]
                     [Len(stack[PyIndex(Len(stack), idx)])].value,
        vals |-> <<>>]
  ELSE [raised |-> NoExc,
        ret |-> stack[PyIndex(Len(stack), idx)]
                     [PyIndex(Len(stack[PyIndex(Len(stack), idx)]), index.i)].value,
        vals |-> <<>>]

\* value(index, stack): self._context_stack[stack][index][1], or the list of
\* the x[1] of self._context_stack[stack][index] when index is a slice
ValueOp(stack, index, idx) ==
  IF PyIndex(Len(stack), idx) = 0
  THEN [raised |-> IndexErr, ret |-> NoneVal, vals |-> <<>>]
  ELSE IF index.slice
  THEN [raised |-> NoExc, ret |-> ListVal,
        vals |-> Seconds(PySlice(stack[PyIndex(Len(stack), idx)],
                                 index.start, index.stop))]
  ELSE IF PyIndex(Len(stack[PyIndex(Len(stack), idx)]), index.i) = 0
  THEN [raised |-> IndexErr, ret |-> NoneVal, vals |-> <<>>]
  ELSE [raised |-> NoExc,
        ret |-> stack[PyIndex(Len(stack), idx)]
                     [PyIndex(Len(stack[PyIndex(Len(stack), idx)]), index.i)].value,
        vals |-> <<>>]

\* ---------------------------------------------------------- Contexter.__enter__
\* self._context_stack[-1] == []
IsOutermostTopEmpty(stack) == stack[Len(stack)] = <<>>

\* self._context_stack == [[]]
IsOutermost(stack) == stack = << <<>> >>

EnterStep(r, entered, made) ==
  [stack |-> r.stack, raised |-> r.raised, entered |-> entered \o r.entered,
   made |-> made + r.made]

RECURSIVE EnterLoop(_, _, _, _, _)
\* for context in self._prepared: self << context
\* (the loop ends at the first append that raises; acc is the outcome so far)
EnterLoop(acc, hs, outs, i, eid) ==
  IF i > Len(hs) \/ acc.raised # NoExc
  THEN acc
  ELSE EnterLoop(EnterStep(AppendOp(acc.stack, hs[i], outs[i], eid + acc.made),
                           acc.entered, acc.made),
                 hs, outs, i + 1, eid)

NoEnters(stack) ==
  [stack |-> stack, raised |-> NoExc, entered |-> <<>>, made |-> 0]

\* the prepared handles registered by every activation
EnterOpEveryTime(stack, hs, outs, eid) ==
  EnterLoop(NoEnters(Append(stack, <<>>)), hs, outs, 1, eid)

EnterOp(stack, hs, outs, eid) ==
  IF IsOutermost(Append(stack, <<>>))
  THEN EnterLoop(NoEnters(Append(stack, <<>>)), hs, outs, 1, eid)
  ELSE NoEnters(Append(stack, <<>>))

\* ctx.__enter__(): the start of `with ctx:`
enter ==
  /\ nact < MaxActivations
  /\ \E outs \in [1..Len(prepared) -> EnterOutcomes] :
       \E r \in {EnterOp(context_stack, prepared, outs, nextEid)} :
          /\ context_stack' = r.stack
          /\ nextEid' = nextEid + r.made
          /\ enterCount' = CountEnters(enterCount, r.entered)
          /\ last' = [NoCall("__enter__") EXCEPT
                        !.pre = context_stack,
                        !.entered = r.entered, !.raised = r.raised,
                        !.ret = IF r.raised = NoExc THEN SelfVal ELSE NoneVal]
  /\ nact' = nact + 1
  /\ UNCHANGED <<prepared, nreg, releaseCount, detached, failed>>

\* ----------------------------------------------------------- Contexter.__exit__
\* One call of a release operation: on which entry, which method, the exc
\* triple passed to it and what the call did.
Release(e, call, arg, out) ==
  [eid |-> e.eid, id |-> e.context.id, call |-> call, arg |-> arg, out |-> out]

\* the first error wins: a release that raises replaces only an empty pending state
ReleaseStepFirstWins(e, exc, out) ==
  IF "__exit__" \in e.context.caps
  THEN [exc |-> IF out = "raise"
                THEN (IF exc = NoExc THEN CleanupErr(e.context.id) ELSE exc)
                ELSE IF out = "truthy" THEN NoExc ELSE exc,
        log |-> <<Release(e, "__exit__", exc, out)>>]
  ELSE IF "close" \in e.context.caps
  THEN [exc |-> IF out = "raise"
                THEN (IF exc = NoExc THEN CleanupErr(e.context.id) ELSE exc)
                ELSE exc,
        log |-> <<Release(e, "close", NoExc, out)>>]
  ELSE [exc |-> TypeErr, log |-> <<>>]

\* __exit__ called with (None, None, None) whatever is pending
ReleaseStepNoArgs(e, exc, out) ==
  IF "__exit__" \in e.context.caps
  THEN [exc |-> IF out = "raise" THEN CleanupErr(e.context.id)
                ELSE IF out = "truthy" THEN NoExc ELSE exc,
        log |-> <<Release(e, "__exit__", NoExc, out)>>]
  ELSE IF "close" \in e.context.caps
  THEN [exc |-> IF out = "raise" THEN CleanupErr(e.context.id) ELSE exc,
        log |-> <<Release(e, "close", NoExc, out)>>]
  ELSE [exc |-> TypeErr, log |-> <<>>]

\* The body of the for loop for one entry, its release behaving as `out`:
\* the pending exception afterwards and the calls made on the handle.
ReleaseStep(e, exc, out) ==
  IF "__exit__" \in e.context.caps
  THEN [exc |-> IF out = "raise" THEN CleanupErr(e.context.id)
                ELSE IF out = "truthy" THEN NoExc ELSE exc,
        log |-> <<Release(e, "__exit__", exc, out)>>]
  ELSE IF "close" \in e.context.caps
  THEN [exc |-> IF out = "raise" THEN CleanupErr(e.context.id) ELSE exc,
        log |-> <<Release(e, "close", NoExc, out)>>]
  ELSE [exc |-> TypeErr, log |-> <<>>]

ExitDone(s, log) == [exc |-> s.exc, log |-> log \o s.log]

RECURSIVE ExitLoopNoTry(_, _, _, _, _)
\* the loop without the try/except: the first release that raises ends it
ExitLoopNoTry(cs, exc, outs, i, log) ==
  IF i > Len(cs)
  THEN [exc |-> exc, log |-> log]
  ELSE IF outs[i] = "raise"
  THEN ExitDone(ReleaseStep(cs[i], exc, outs[i]), log)
  ELSE ExitLoopNoTry(cs, ReleaseStep(cs[i], exc, outs[i]).exc, outs, i + 1,
                     log \o ReleaseStep(cs[i], exc, outs[i]).log)

RECURSIVE ExitLoop(_, _, _, _, _)
\* for context, value in contexts[::-1]: try: ... except: exc = sys.exc_info()
\* (cs is the list being iterated, outs[i] the behaviour of its i-th release,
\* log the calls made so far)
ExitLoop(cs, exc, outs, i, log) ==
  IF i > Len(cs)
  THEN [exc |-> exc, log |-> log]
  ELSE ExitLoop(cs, ReleaseStep(cs[i], exc, outs[i]).exc, outs, i + 1,
                log \o ReleaseStep(cs[i], exc, outs[i]).log)

\* what is pending dropped instead of reraised
ExitResultSilent(stack, r) ==
  [stack |-> Popped(stack), popped |-> Top(stack), log |-> r.log,
   raised |-> NoExc, ret |-> NoneVal]

\* if exc != (None, None, None): reraise(exc)
ExitResult(stack, r) ==
  [stack |-> Popped(stack), popped |-> Top(stack), log |-> r.log,
   raised |-> r.exc, ret |-> NoneVal]

\* __exit__(*exc): pop the innermost scope, release it, reraise what is pending.
\* The method has no return statement: when it does not raise it returns None.
ExitOp(stack, exc, outs) ==
  IF stack = <<>>
  THEN [stack |-> stack, popped |-> <<>>, log |-> <<>>, raised |-> IndexErr,
        ret |-> NoneVal]
  ELSE ExitResult(stack, ExitLoop(Reversed(Top(stack)), exc, outs, 1, <<>>))

CountReleases(cnt, log) ==
  [e \in EntryIds |-> cnt[e] + Cardinality({k \in 1..Len(log) : log[k].eid = e})]

InnerLen(stack) == IF stack = <<>> THEN 0 ELSE Len(Top(stack))

\* One call of __exit__ with the exc triple `exc`.
ExitCall(exc) ==
  /\ \E outs \in [1..InnerLen(context_stack) -> ExitOutcomes] :
       \E r \in {ExitOp(context_stack, exc, outs)} :
          /\ context_stack' = r.stack
          /\ releaseCount' = CountReleases(releaseCount, r.log)
          /\ last' = [NoCall("__exit__") EXCEPT !.pre = context_stack, !.exc_in = exc, !.popped = r.popped,
                                        !.log = r.log, !.raised = r.raised,
                                        !.ret = r.ret]
  /\ UNCHANGED <<prepared, nreg, nact, nextEid, enterCount, detached, failed>>

\* ctx.__exit__(*exc): the end of `with ctx:`, with the error of the body
exit == \E exc \in {NoExc, BodyErr} : ExitCall(exc)

\* ctx.close(): self.__exit__(None, None, None)
close == ExitCall(NoExc)

\* What `with ctx: <body raising exc_in>` propagates to its caller, given what
\* ctx.__exit__ raised and returned: an exception of __exit__ replaces the
\* body's, a truthy return value swallows it, a falsy one lets it through.
WithPropagates(exc_in, raised, retval) ==
  IF raised # NoExc THEN raised
  ELSE IF Truthy(retval) THEN NoExc ELSE exc_in

\* ------------------------------------------------------------ ExitStack.pop_all
NewManagerVal == [t |-> "manager", id |-> 0]

\* the transfer without the fresh scope for the original
PopAllOpNoFresh(stack) ==
  IF stack = <<>>
  THEN [stack |-> stack, ret_stack |-> <<>>, moved |-> <<>>, raised |-> IndexErr,
        ret |-> NoneVal]
  ELSE [stack |-> Popped(stack), ret_stack |-> <<Top(stack)>>,
        moved |-> Top(stack), raised |-> NoExc, ret |-> NoneVal]

\* ret = ExitStack(); ret._context_stack.append(self._context_stack.pop());
\* self._context_stack.append([])
PopAllOp(stack) ==
  IF stack = <<>>
  THEN [stack |-> stack, ret_stack |-> <<>>, moved |-> <<>>, raised |-> IndexErr,
        ret |-> NoneVal]
  ELSE [stack |-> Append(Popped(stack), <<>>), ret_stack |-> <<Top(stack)>>,
        moved |-> Top(stack), raised |-> NoExc, ret |-> NoneVal]

Eids(scope) == {scope[k].eid : k \in 1..Len(scope)}

\* stack.pop_all(); the new instance `ret` is a local of the method, kept here
\* as last.new_stack (its _context_stack) for as long as the call is the last one
pop_all ==
  \E r \in {PopAllOp(context_stack)} :
     /\ context_stack' = r.stack
     /\ detached' = detached \cup Eids(r.moved)
     /\ last' = [NoCall("pop_all") EXCEPT !.pre = context_stack,
                                          !.popped = r.moved,
                                          !.new_stack = r.ret_stack,
                                          !.raised = r.raised, !.ret = r.ret]
     /\ UNCHANGED <<prepared, nreg, nact, nextEid, enterCount, releaseCount,
                    failed>>

\* ------------------------------------------------------------ lookup calls
\* The stack argument of values() / value(): -1 by default.
ScopeArgs == (0 - (MaxActivations + 1))..MaxActivations

\* The index argument of value().
PointArgs == (0 - (MaxScopeLen + 1))..MaxScopeLen
SliceEnds == {<<>>} \cup {<<i>> : i \in (0 - (MaxScopeLen + 1))..(MaxScopeLen + 1)}
IndexArgs ==
  {PointIndex(i) : i \in PointArgs}
    \cup {SliceIndex(a, b) : a \in SliceEnds, b \in SliceEnds}

Lookup(op, idx, index, r) ==
  [NoCall(op) EXCEPT !.pre = context_stack, !.scope = idx, !.index = index,
                     !.raised = r.raised, !.ret = r.ret, !.vals = r.vals]

\* The lookups are called with the arguments held in last.scope and
\* last.index, which are drawn at the start and kept by every lookup.
\* ctx.values(stack)
values ==
  /\ last' = Lookup("values", last.scope, last.index,
                    ValuesOp(context_stack, last.scope))
  /\ UNCHANGED <<prepared, context_stack, nreg, nact, nextEid, enterCount,
                 releaseCount, detached, failed>>

\* ctx.value(index, stack) / ctx[index]
value ==
  /\ last' = Lookup("value", last.scope, last.index,
                    ValueOp(context_stack, last.index, last.scope))
  /\ UNCHANGED <<prepared, context_stack, nreg, nact, nextEid, enterCount,
                 releaseCount, detached, failed>>

\* len(ctx)
len ==
  /\ last' = Lookup("__len__", last.scope, last.index, LenCallOp(context_stack))
  /\ UNCHANGED <<prepared, context_stack, nreg, nact, nextEid, enterCount,
                 releaseCount, detached, failed>>

\* ------------------------------------------------------------------ Init
\* The kinds of handle given to the constructor.
PreparedCaps == { {"__enter__", "__exit__"}, {"close"}, {} }

RECURSIVE PreparedLists(_)
PreparedLists(n) ==
  IF n = 0 THEN {<<>>}
  ELSE LET shorter == PreparedLists(n - 1)
       IN shorter \cup
          {Append(s, Handle(Len(s) + 1, caps)) :
             s \in {t \in shorter : Len(t) = n - 1}, caps \in PreparedCaps}

\* Contexter(*contexts) / ExitStack(*contexts)
Init ==
  /\ prepared \in PreparedLists(MaxHandles)
  /\ context_stack = <<>>
  /\ nreg = 0
  /\ nact = 0
  /\ nextEid = 1
  /\ enterCount = [i \in HandleIds |-> 0]
  /\ releaseCount = [e \in EntryIds |-> 0]
  /\ detached = {}
  /\ failed = {}
  /\ last = NoCall("__init__")

Next ==
  \/ enter
  \/ append
  \/ exit
  \/ close
  \/ pop_all

Spec == Init /\ [][Next]_vars

\* ---------------------------------------------- the lookups on a given stack
\* The handles registered before a lookup: context managers and closeables
\* in turn.
LookupHandle(i) ==
  Handle(i, IF i % 2 = 1 THEN {"__enter__", "__exit__"} ELSE {"close"})

RECURSIVE RegisterN(_, _, _)
\* n calls of ctx << h on an active manager, with the handles next, next+1, ..
RegisterN(stack, n, next) ==
  IF n = 0 THEN stack
  ELSE RegisterN(AppendOp(stack, LookupHandle(next), "ok", next).stack,
                 n - 1, next + 1)

RECURSIVE BuildStack(_, _, _, _)
\* nested `with ctx:` blocks, the k-th registering lens[k] handles
BuildStack(stack, lens, k, next) ==
  IF k > Len(lens) THEN stack
  ELSE BuildStack(RegisterN(Append(stack, <<>>), lens[k], next),
                  lens, k + 1, next + lens[k])

RECURSIVE Total(_, _)
Total(lens, k) == IF k > Len(lens) THEN 0 ELSE lens[k] + Total(lens, k + 1)

ScopeShapes == UNION {[1..d -> 0..MaxScopeLen] : d \in 0..MaxActivations}

\* A manager built without prepared handles, activated Len(lens) times with
\* lens[k] handles registered at depth k, and the arguments of the lookups.
LookupInit ==
  \E lens \in ScopeShapes, idx \in ScopeArgs, index \in IndexArgs :
     /\ prepared = <<>>
     /\ context_stack = BuildStack(<<>>, lens, 1, 1)
     /\ nreg = Total(lens, 1)
     /\ nact = Len(lens)
     /\ nextEid = Total(lens, 1) + 1
     /\ enterCount = [i \in 1..Total(lens, 1) |-> i % 2]
     /\ releaseCount = [e \in 1..Total(lens, 1) |-> 0]
     /\ detached = {}
     /\ failed = {}
     /\ last = [NoCall("__init__") EXCEPT !.scope = idx, !.index = index]

LookupNext ==
  \/ values
  \/ value
  \/ len

LookupSpec == LookupInit /\ [][LookupNext]_vars

\* ================================================================ claims
IsExitCall == last.op = "__exit__"

\* C1: deactivate invokes the release operation (__exit__ or close) of the
\* entries of the popped scope in exactly the reverse of their registration
\* order: entry N first, entry 1 last, for every scope size N >= 0.
C1_LifoRelease ==
  IsExitCall =>
    /\ Len(last.log) = Len(last.popped)
    /\ \A k \in 1..Len(last.log) :
         /\ last.log[k].eid = last.popped[Len(last.popped) - k + 1].eid
         /\ last.log[k].call \in {"__exit__", "close"}
    \* serials grow with registration: the log runs from youngest to oldest
    /\ \A j, k \in 1..Len(last.log) : j < k => last.log[j].eid > last.log[k].eid

\* a scope of a prepared handle and a later appended handle was released
C1_Witness ==
  /\ last.op = "__exit__"
  /\ Len(last.popped) = 2
  /\ Len(last.log) = 2
  /\ last.popped[1].context.id \in 1..Len(prepared)
  /\ last.popped[2].context.id > Len(prepared)
  /\ last.log[1].eid = last.popped[2].eid

\* C2: during one deactivate every entry of the popped scope has its release
\* operation invoked exactly once, whichever releases raise or suppress.
C2_AllReleased ==
  IsExitCall =>
    /\ \A k \in 1..Len(last.popped) :
         Cardinality({j \in 1..Len(last.log) :
                        last.log[j].eid = last.popped[k].eid}) = 1
    /\ \A j \in 1..Len(last.log) : last.log[j].eid \in Eids(last.popped)

\* the first release raised over a body error and the next one, which ran all
\* the same, suppressed what was pending
C2_Witness ==
  /\ last.op = "__exit__"
  /\ last.exc_in = BodyErr
  /\ Len(last.popped) = 2
  /\ last.log[1].out = "raise"
  /\ last.log[2].call = "__exit__" /\ last.log[2].out = "truthy"

\* C3: a deactivate releases exactly the entries of the innermost scope (those
\* registered since the matching activate); the scopes below it are left as
\* they were and their entries stay held: listed, entered and not released.
C3_ScopeIsolation ==
  /\ (IsExitCall /\ last.pre # <<>>) =>
       /\ context_stack = SubSeq(last.pre, 1, Len(last.pre) - 1)
       /\ {last.log[j].eid : j \in 1..Len(last.log)} =
            {last.pre[Len(last.pre)][k].eid : k \in 1..Len(last.pre[Len(last.pre)])}
  /\ \A i \in 1..Len(context_stack) :
       \A k \in 1..Len(context_stack[i]) :
         /\ releaseCount[context_stack[i][k].eid] = 0
         /\ context_stack[i][k].value.t = "value" =>
              enterCount[context_stack[i][k].context.id] >= 1

\* the inner deactivate released the inner entry, the outer entries are held
C3_Witness ==
  /\ last.op = "__exit__"
  /\ Len(last.popped) >= 1
  /\ Len(context_stack) = 1
  /\ Len(context_stack[1]) >= 1
  /\ \A k \in 1..Len(context_stack[1]) :
       /\ releaseCount[context_stack[1][k].eid] = 0
       /\ context_stack[1][k].eid \notin Eids(last.popped)

PreparedIds == 1..Len(prepared)

Propagated == WithPropagates(last.exc_in, last.raised, last.ret)

Raisers == {j \in 1..Len(last.log) : last.log[j].out = "raise"}

LastOf(S) == CHOOSE j \in S : \A k \in S : k <= j

\* C5 (as claimed): whenever some release raised, deactivate propagates the
\* error of the last release step that raised.
C5_LastRaisedPropagates ==
  (IsExitCall /\ Raisers # {}) =>
    last.raised = CleanupErr(last.log[LastOf(Raisers)].id)

\* the __exit__ calls that came after the last raising release and returned a
\* truthy value
LaterSuppressors ==
  {j \in 1..Len(last.log) :
     /\ j > LastOf(Raisers)
     /\ last.log[j].call = "__exit__"
     /\ last.log[j].out = "truthy"}

\* C5 (amended): when some release raised and no __exit__ called after the last
\* raising release returned a truthy value, deactivate propagates the error of
\* that last raising release, whatever was pending before it (the body error,
\* an earlier cleanup error or nothing); an error raised by deactivate after a
\* release raised is never any other error.
C5_MostRecentWins ==
  (IsExitCall /\ Raisers # {}) =>
    /\ LaterSuppressors = {} =>
         /\ last.raised = CleanupErr(last.log[LastOf(Raisers)].id)
         /\ Propagated = CleanupErr(last.log[LastOf(Raisers)].id)
    /\ LaterSuppressors # {} => last.raised = NoExc
    /\ last.raised \in {NoExc, CleanupErr(last.log[LastOf(Raisers)].id)}

\* R2 (released first) and R1 (released last) both raised over a body error
C5_Witness ==
  /\ IsExitCall
  /\ last.exc_in = BodyErr
  /\ Len(last.log) >= 2
  /\ last.log[1].out = "raise"
  /\ last.log[Len(last.log)].out = "raise"
  /\ last.log[1].id # last.log[Len(last.log)].id
  /\ last.raised = CleanupErr(last.popped[1].context.id)

Suppressors ==
  {j \in 1..Len(last.log) :
     /\ last.log[j].call = "__exit__"
     /\ last.log[j].out = "truthy"
     /\ last.log[j].arg # NoExc}

\* C6: if an __exit__ returned a truthy value while an error was pending and no
\* release after it raised, the deactivation propagates no error; if nothing
\* suppressed and nothing raised, it propagates exactly the incoming error.
C6_Suppression ==
  IsExitCall =>
    /\ (\E j \in Suppressors : \A k \in Raisers : k < j) => Propagated = NoExc
    /\ (Raisers = {} /\ \A j \in 1..Len(last.log) : last.log[j].out # "truthy")
         => Propagated = last.exc_in

\* C7: pop_all on an active manager returns a new manager whose scope stack is
\* the one scope that was the original's innermost, entries in their order.
C7_TransferReturnsManager ==
  (last.op = "pop_all" /\ last.pre # <<>>) =>
    /\ last.ret = NewManagerVal
    /\ last.new_stack = <<last.pre[Len(last.pre)]>>

\* C8: pop_all keeps the original's depth, leaves its innermost scope empty and
\* its outer scopes as they were; no later deactivate of the original releases
\* a transferred entry.
C8_TransferLeavesOriginal ==
  /\ (last.op = "pop_all" /\ last.pre # <<>>) =>
       /\ Len(context_stack) = Len(last.pre)
       /\ context_stack[Len(context_stack)] = <<>>
       /\ SubSeq(context_stack, 1, Len(context_stack) - 1) =
            SubSeq(last.pre, 1, Len(last.pre) - 1)
       /\ last.raised = NoExc
  /\ \A e \in detached :
       /\ releaseCount[e] = 0
       /\ \A i \in 1..Len(context_stack) :
            \A k \in 1..Len(context_stack[i]) : context_stack[i][k].eid # e
  /\ IsExitCall => \A j \in 1..Len(last.log) : last.log[j].eid \notin detached

\* after a transfer the emptied scope got a new entry and was deactivated
C8_Witness ==
  /\ IsExitCall
  /\ nact = 1
  /\ detached # {}
  /\ Len(last.log) = 1
  /\ last.log[1].id > Len(prepared)

Unsupported(h) ==
  /\ ~({"__enter__", "__exit__"} \subseteq h.caps)
  /\ "close" \notin h.caps

\* C9: append of a handle with neither the __enter__/__exit__ pair nor close
\* raises the TypeError, calls nothing on the handle and leaves every scope as
\* it was.
C9_UnsupportedKind ==
  /\ (last.op = "append" /\ Unsupported(last.handle)) =>
       /\ last.raised = TypeErr
       /\ last.entered = <<>>
       /\ last.log = <<>>
       /\ context_stack = last.pre
       /\ enterCount[last.handle.id] = 0
  /\ \A i \in PreparedIds : Unsupported(prepared[i]) => enterCount[i] = 0
  /\ \A i \in 1..Len(context_stack) :
       \A k \in 1..Len(context_stack[i]) : ~Unsupported(context_stack[i][k].context)

\* an unsupported handle was refused by an active manager holding an entry
C9_Witness ==
  /\ last.op = "append"
  /\ Unsupported(last.handle)
  /\ last.raised = TypeErr
  /\ context_stack # <<>>
  /\ Len(context_stack[Len(context_stack)]) >= 1

Produced(h) ==
  IF {"__enter__", "__exit__"} \subseteq h.caps
  THEN [t |-> "value", id |-> h.id]
  ELSE [t |-> "handle", id |-> h.id]

\* C10: a successful append on an active manager adds one entry at the end of
\* the innermost scope and returns the produced value (__enter__'s result for a
\* context manager, the handle itself for a closeable); values() lists one
\* produced value per entry of the selected scope in registration order,
\* prepared handles first in construction order, and len() is the number of
\* entries of the innermost scope.
C10_RegisterAndValues ==
  /\ (last.op = "append" /\ last.pre # <<>> /\ last.raised = NoExc) =>
       /\ Len(context_stack) = Len(last.pre)
       /\ SubSeq(context_stack, 1, Len(context_stack) - 1) =
            SubSeq(last.pre, 1, Len(last.pre) - 1)
       /\ Len(context_stack[Len(context_stack)]) = Len(last.pre[Len(last.pre)]) + 1
       /\ SubSeq(context_stack[Len(context_stack)], 1, Len(last.pre[Len(last.pre)]))
            = last.pre[Len(last.pre)]
       /\ last.ret = Produced(last.handle)
       /\ Values(context_stack, -1) = Append(Values(last.pre, -1), last.ret)
  /\ \A i \in 1..Len(context_stack) :
       /\ Len(Values(context_stack, i - 1)) = Len(context_stack[i])
       /\ Values(context_stack, i - Len(context_stack) - 1) =
            Values(context_stack, i - 1)
       /\ \A k \in 1..Len(context_stack[i]) :
            /\ Values(context_stack, i - 1)[k] = Produced(context_stack[i][k].context)
            /\ \A j \in 1..(k - 1) :
                 /\ context_stack[i][j].eid < context_stack[i][k].eid
                 /\ context_stack[i][k].context.id \in PreparedIds =>
                      context_stack[i][j].context.id < context_stack[i][k].context.id
  /\ context_stack # <<>> =>
       LenOp(context_stack) = Len(context_stack[Len(context_stack)])

\* a context manager was appended after a prepared closeable
C10_Witness ==
  /\ last.op = "append"
  /\ last.raised = NoExc
  /\ last.ret.t = "value"
  /\ Len(context_stack) = 1
  /\ Len(prepared) = 1
  /\ Values(context_stack, -1) = <<[t |-> "handle", id |-> 1], last.ret>>
  /\ LenOp(context_stack) = 2
IsLookup == last.op \in {"values", "value", "__len__"}

\* the scope a lookup selected, when the stack has it
Selected == last.pre[PyIndex(Len(last.pre), last.scope)]
HasSelected == PyIndex(Len(last.pre), last.scope) # 0

\* position p (from 0) of a list of n elements lies in the slice start:stop
InSlice(n, p, start, stop) ==
  /\ start = <<>> \/ (IF start[1] >= 0 THEN p >= start[1] ELSE p >= n + start[1])
  /\ stop = <<>> \/ (IF stop[1] >= 0 THEN p < stop[1] ELSE p < n + stop[1])

SlicePositions ==
  {p \in 0..(Len(Selected) - 1) :
     InSlice(Len(Selected), p, last.index.start, last.index.stop)}

FirstOf(S) == CHOOSE m \in S : \A q \in S : m <= q

\* C11: on a scope whose values in registration order are v0..v(n-1),
\* value(i) returns vi for 0 <= i < n and v(n-k) for i = -k, 1 <= k <= n; the
\* slice form returns the values at the positions of the slice, contiguous
\* and in registration order; no lookup changes the scope stack.
C11_IndexedLookup ==
  /\ IsLookup => context_stack = last.pre
  /\ (last.op = "value" /\ HasSelected) =>
       LET n == Len(Selected)
           i == last.index.i
       IN IF last.index.slice
          THEN /\ last.raised = NoExc
               /\ Len(last.vals) = Cardinality(SlicePositions)
               /\ \A k \in 1..Len(last.vals) :
                     last.vals[k] = Selected[FirstOf(SlicePositions) + k].value
          ELSE /\ (0 <= i /\ i < n) =>
                    (last.raised = NoExc /\ last.ret = Selected[i + 1].value)
               /\ (0 - n <= i /\ i < 0) =>
                    (last.raised = NoExc /\ last.ret = Selected[n + i + 1].value)

\* [1:] of a scope holding [a, b, c] answered with [b, c]
C11_Witness ==
  /\ last.op = "value" /\ HasSelected /\ Len(Selected) = 3
  /\ last.index = SliceIndex(<<1>>, <<>>)
  /\ last.vals = <<Selected[2].value, Selected[3].value>>
  /\ Selected[2].value # Selected[3].value

\* C12: values() and value() raise IndexError when the stack has no scope at
\* the given index (the default -1 on an inactive manager included), the point
\* form of value() raises IndexError when the index is outside the entries of
\* the scope, and the scope stack is as before in each of these cases.
C12_LookupErrors ==
  /\ (last.op \in {"values", "value"} /\ ~HasSelected) =>
       (last.raised = IndexErr /\ context_stack = last.pre)
  /\ (last.op = "value" /\ HasSelected /\ ~last.index.slice
        /\ (last.index.i >= Len(Selected) \/ last.index.i < 0 - Len(Selected))) =>
       (last.raised = IndexErr /\ context_stack = last.pre)

\* the point index just past the end of a scope of two entries
C12_Witness ==
  /\ last.op = "value" /\ HasSelected /\ ~last.index.slice
  /\ Len(Selected) = 2 /\ last.index.i = 2
  /\ last.raised = IndexErr

\* an entry that append stored through its close branch: (context, context)
ViaCloseBranch(e) ==
  /\ ~({"__enter__", "__exit__"} \subseteq e.context.caps)
  /\ "close" \in e.context.caps

\* C13: every entry registered through the close branch of append (a handle
\* with __exit__ and close but no __enter__ included) is released by a call
\* of its close, never of its __exit__, and its release never clears the
\* pending error: a scope holding only such an entry whose release does not
\* raise lets the incoming error through.
C13_CloseablesNeverSuppress ==
  IsExitCall =>
    /\ \A k \in 1..Len(last.log) : \A j \in 1..Len(last.popped) :
         (last.popped[j].eid = last.log[k].eid /\ ViaCloseBranch(last.popped[j]))
           => last.log[k].call = "close"
    /\ (Len(last.popped) = 1 /\ Len(last.log) = 1
          /\ ViaCloseBranch(last.popped[1]) /\ last.log[1].out # "raise")
         => last.raised = last.exc_in

IsManaged(h) == {"__enter__", "__exit__"} \subseteq h.caps

RECURSIVE ManagedIds(_)
\* the ids of the context managers of a list of handles, in order
ManagedIds(hs) ==
  IF hs = <<>> THEN <<>>
  ELSE (IF IsManaged(Head(hs)) THEN <<Head(hs).id>> ELSE <<>>)
         \o ManagedIds(Tail(hs))

\* C14: an __enter__ that finds the scope stack empty pushes one scope and
\* registers the prepared handles into it in construction order (all of them
\* when it returns; a registration that fails ends the loop); an __enter__
\* that finds the scope stack non-empty pushes one empty scope, calls
\* __enter__ on no prepared handle and does not fail, even when the outer
\* scope is empty.
C14_Activation ==
  last.op = "__enter__" =>
    IF last.pre = <<>>
    THEN /\ Len(context_stack) = 1
         /\ Len(context_stack[1]) <= Len(prepared)
         /\ \A k \in 1..Len(context_stack[1]) :
               context_stack[1][k].context = prepared[k]
         /\ last.raised = NoExc =>
              /\ Len(context_stack[1]) = Len(prepared)
              /\ last.entered = ManagedIds(prepared)
    ELSE /\ context_stack = Append(last.pre, <<>>)
         /\ last.entered = <<>>
         /\ last.raised = NoExc

\* a nested activation over an empty outer scope, with a context manager in
\* the prepared list
C14_Witness ==
  /\ last.op = "__enter__"
  /\ last.pre = << <<>> >>
  /\ ManagedIds(prepared) # <<>>
  /\ context_stack = << <<>>, <<>> >>

\* the releases before the k-th of the last __exit__ that changed what is
\* pending: those that raised and the __exit__ calls that returned true
Changers(k) ==
  {j \in 1..(k - 1) :
     \/ last.log[j].out = "raise"
     \/ (last.log[j].call = "__exit__" /\ last.log[j].out = "truthy")}

\* the error pending when the k-th release of the last __exit__ is made
PendingAt(k) ==
  IF Changers(k) = {} THEN last.exc_in
  ELSE IF last.log[LastOf(Changers(k))].out = "raise"
  THEN CleanupErr(last.log[LastOf(Changers(k))].id)
  ELSE NoExc

\* C15: during a deactivate every __exit__ of an entry is called with the
\* error pending at that moment: the incoming error until a release changes
\* it, no error once an earlier release of the loop has suppressed it, and
\* the most recent cleanup error once an earlier release of the loop raised.
C15_ExitSeesPending ==
  IsExitCall =>
    \A k \in 1..Len(last.log) :
       last.log[k].call = "__exit__" => last.log[k].arg = PendingAt(k)

\* the body failed, the first release raised and the second entry's __exit__
\* was handed that cleanup error
C15_Witness ==
  /\ IsExitCall /\ last.exc_in = BodyErr /\ Len(last.log) = 2
  /\ last.log[1].out = "raise"
  /\ last.log[2].call = "__exit__"
  /\ IsManaged(last.popped[1].context)
  /\ last.log[2].arg = CleanupErr(last.log[1].id)

\* C16: a deactivate of an active manager whose innermost scope holds no
\* entries pops that scope, calls no release operation, and its outcome is
\* the incoming error unchanged (no error when there was none).
C16_EmptyScopeExit ==
  (IsExitCall /\ last.pre # <<>> /\ Top(last.pre) = <<>>) =>
    /\ context_stack = ButLast(last.pre)
    /\ last.log = <<>>
    /\ last.raised = last.exc_in

\* the body failed inside a manager with an empty scope
C16_Witness ==
  /\ IsExitCall /\ last.pre # <<>> /\ Top(last.pre) = <<>>
  /\ last.exc_in = BodyErr /\ last.raised = BodyErr
  /\ last.popped = <<>>

\* the places of the scope stack that hold the entry with serial e
Places(e) ==
  {p \in (1..Len(context_stack)) \X (1..(nextEid - 1)) :
     /\ p[2] <= Len(context_stack[p[1]])
     /\ context_stack[p[1]][p[2]].eid = e}

\* C17: in every reachable state no entry has been released twice, every
\* entry registered and not yet released is held in exactly one scope of
\* exactly one manager (a scope of this manager, or for a transferred entry
\* the scope of the manager the transfer handed to the caller), and a
\* manager whose scope stack is empty holds no entry.
C17_ExclusiveOwnership ==
  /\ \A e \in 1..(nextEid - 1) : releaseCount[e] <= 1
  /\ \A e \in 1..(nextEid - 1) :
       (releaseCount[e] = 0 /\ e \notin detached) => Cardinality(Places(e)) = 1
  /\ \A e \in 1..(nextEid - 1) :
       (releaseCount[e] = 1 \/ e \in detached) => Places(e) = {}
  /\ last.op = "pop_all" =>
       \A e \in Eids(last.popped) :
          /\ last.ret = NewManagerVal
          /\ last.new_stack # <<>>
          /\ e \in Eids(Top(last.new_stack))

\* C18: on a manager whose scope stack is empty, append of any handle fails
\* without calling the handle's __enter__ and leaves the stack empty, so no
\* handle is entered and owned by no scope.
C18_InactiveRegister ==
  (last.op = "append" /\ last.pre = <<>>) =>
    /\ last.raised # NoExc
    /\ last.entered = <<>>
    /\ context_stack = <<>>

\* C19: when the registration of a prepared handle fails during an __enter__
\* that found the scope stack empty, the stack is left empty and every
\* prepared handle entered earlier in that __enter__ has been released.
C19_FailedActivation ==
  (last.op = "__enter__" /\ last.pre = <<>> /\ last.raised # NoExc) =>
    /\ context_stack = <<>>
    /\ \A e \in 1..(nextEid - 1) :
         Places(e) = {} /\ (e \notin detached => releaseCount[e] >= 1)

\* C20: when append is called on an active manager with a context manager
\* whose __enter__ raises, that error is what append raises, no entry is made
\* for the handle and every scope is as before; no later deactivate calls a
\* release operation of that handle and no scope ever holds it.
C20_FailedAcquisition ==
  /\ (last.op = "append" /\ last.pre # <<>> /\ last.handle.id \in failed) =>
       /\ IsManaged(last.handle)
       /\ last.raised = EnterErr(last.handle.id)
       /\ last.ret = NoneVal
       /\ context_stack = last.pre
  /\ (last.op = "append" /\ last.pre # <<>> /\ IsManaged(last.handle)) =>
       (last.raised = NoExc \/ last.handle.id \in failed)
  /\ \A d \in 1..Len(context_stack) : \A k \in 1..Len(context_stack[d]) :
       context_stack[d][k].context.id \notin failed
  /\ IsExitCall => \A k \in 1..Len(last.log) : last.log[k].id \notin failed

\* a deactivate that released the entry of an appended handle after the
\* acquisition of a later handle had failed on the then active manager
C20_Witness ==
  /\ IsExitCall /\ Len(last.log) >= 1
  /\ last.log[1].id > Len(prepared)
  /\ \E i \in failed : enterCount[i] = 1 /\ i > last.log[1].id

====
